---- MODULE Spec2Model ----
(***************************************************************************)
(* Streaming pipeline of the FL2000 USB display driver                     *)
(* (src/fl2000_streaming.c, the vmalloc-based revision at lines 432-884,   *)
(* with fl2000_submit_urb from src/fl2000.h and the DRM callers of         *)
(* src/unnamed/part_000).                                                  *)
(*                                                                         *)
(* Execution contexts:                                                     *)
(*   - the DRM commit context: fl2000_stream_mode_set, fl2000_stream_enable*)
(*     fl2000_stream_disable, fl2000_stream_compress;                      *)
(*   - the stream worker (fl2000_stream_work), one step per action;        *)
(*   - the URB completion context (fl2000_stream_data_completion,          *)
(*     fl2000_stream_zero_length_completion).                              *)
(* Code that runs under list_lock is one atomic action.                    *)
(*                                                                         *)
(* Stepped on their own, in specifications of their own:                   *)
(*   - fl2000_submit_urb, one usb_submit_urb attempt per step (SubmitSpec);*)
(*   - fl2000_display_mode_valid and fl2000_output_mode_set with           *)
(*     fl2000_mode_calc and fl2000_pll_calc (ModeSpec, PllSpec,            *)
(*     CeilingSpec).                                                       *)
(*   - the line converters fl2000_stream_compress calls, one source pixel  *)
(*     per behaviour (PixSpec);                                            *)
(*   - the destination addresses of the conversion loop of                 *)
(*     fl2000_stream_compress over one frame (FrameSpec);                  *)
(*   - the operations of each streaming function in program order, with    *)
(*     spin_lock_irq / spin_unlock of list_lock among them (LockSpec).     *)
(*                                                                         *)
(* A kernel fault (NULL dereference, use of a list entry taken from an     *)
(* empty list, BUG_ON) is recorded in `fault`; the modelled program does   *)
(* not continue after it.                                                  *)
(***************************************************************************)
EXTENDS Integers, Sequences, FiniteSets, TLC

VARIABLES
    bufs,           \* allocated fl2000_stream_buf objects: id -> [size, in_flight]
    render_list,    \* fl2000_dev->render_list, head first
    transmit_list,  \* fl2000_dev->transmit_list, head first
    wait_list,      \* fl2000_dev->wait_list, head first
    buf_size,       \* fl2000_dev->buf_size
    bytes_pix,      \* fl2000_dev->bytes_pix
    enabled,        \* fl2000_dev->enabled
    done,           \* fl2000_dev->stream_complete.done (credits)
    anchor,         \* fl2000_dev->anchor: submitted URBs, oldest first
    wpc,            \* position of fl2000_stream_work
    cur_sb,         \* fl2000_stream_work's local cur_sb
    dpc,            \* position of fl2000_stream_disable
    active,         \* the DRM pipe is between display_enable and display_disable
    fault,          \* kernel fault that stopped the program, or "none"
    enc_order,      \* history: buffers holding an encoded frame, oldest encoding first
    dropped,        \* history: fl2000_stream_compress dropped a frame and render_list
                    \*          has been empty ever since
    ndisturb,       \* history: disturbances since the stream was enabled
    ms_pixels,      \* history: `pixels` argument of the latest fl2000_stream_mode_set
    last_data,      \* history: the latest data URB submitted and its companion
    ndisable,       \* history: fl2000_stream_disable calls completed in a row (capped at 2)
    snap,           \* history: states left by the first and the latest fl2000_stream_disable
                    \*          of a row of calls
    uaf,            \* history: a freed fl2000_stream_buf was dereferenced
    su,             \* one fl2000_submit_urb call, stepped per usb_submit_urb attempt
    mc,             \* one fl2000_display_mode_valid / fl2000_output_mode_set call
    px,             \* the conversion of fl2000_stream_compress: one pixel in a line
                    \* converter, or the position in a frame and the bytes last stored
    lk              \* one call of a streaming function, stepped per operation, with
                    \* the state of fl2000_dev->list_lock

vars == <<bufs, render_list, transmit_list, wait_list, buf_size, bytes_pix,
          enabled, done, anchor, wpc, cur_sb, dpc, active, fault,
          enc_order, dropped, ndisturb, ms_pixels, last_data, ndisable, snap, uaf,
          su, mc, px, lk>>

\* the variables of the calls that are stepped on their own
calc == <<su, mc, px, lk>>

\* the variables of the streaming pipeline
stream == <<bufs, render_list, transmit_list, wait_list, buf_size, bytes_pix,
            enabled, done, anchor, wpc, cur_sb, dpc, active, fault,
            enc_order, dropped, ndisturb, ms_pixels, last_data, ndisable, snap, uaf>>

(***************************************************************************)
(* Program constants                                                       *)
(***************************************************************************)
FL2000_SB_MIN == 3
FL2000_SB_NUM == FL2000_SB_MIN + 1

\* usb_maxpacket() of the bulk OUT endpoint 1 (high-speed bulk endpoint)
max_packet == 512

\* completion.done after complete_all(): the unsigned int UINT_MAX, written as
\* the signed value of the same 32 bits
UINT_MAX == -1

\* errno values used by the driver
ENOENT == -2
ENXIO == -6
EAGAIN == -11
ENOMEM == -12
ENODEV == -19
EPIPE == -32

BufIds == 1 .. FL2000_SB_NUM

\* Disturbances explored between an enable and the next disable: calls of
\* fl2000_stream_mode_set while the pipe is active, and data URBs that complete
\* on their own with an error status
MaxDisturb == 1

\* (pixels, bytes_pix) pairs handed to fl2000_stream_mode_set
ModeArgs == { <<256, 2>>, <<100, 3>> }

(***************************************************************************)
(* Sequences as kernel lists                                               *)
(***************************************************************************)
SeqToSet(s) == { s[i] : i \in 1 .. Len(s) }

Remove(s, x) == SelectSeq(s, LAMBDA y : y # x)

Last(s) == s[Len(s)]

Count(s, x) == Cardinality({ i \in 1 .. Len(s) : s[i] = x })

\* The three lists as one value
Lists == [r |-> render_list, t |-> transmit_list, w |-> wait_list]

\* list_del(&sb->list): unlink the entry from the list it is on
list_del(L, b) == [r |-> Remove(L.r, b), t |-> Remove(L.t, b), w |-> Remove(L.w, b)]

\* list_add(&sb->list, head): insert right after the head
list_add(L, b, to) == [L EXCEPT ![to] = <<b>> \o @]

\* list_add_tail(&sb->list, head)
list_add_tail(L, b, to) == [L EXCEPT ![to] = Append(@, b)]

list_move_tail_nodel(L, b, to) == list_add_tail(L, b, to)

\* list_move_tail(&sb->list, head): unlink, then append at the tail
list_move_tail(L, b, to) == list_add_tail(list_del(L, b), b, to)

list_empty(l) == l = <<>>

list_first_entry(l) == Head(l)

list_last_entry(l) == Last(l)

\* round_up(x, 8) of include/linux/math.h: ((x - 1) | 7) + 1, on size_t
round_up8(x) == IF x = 0 THEN 0 ELSE (((x - 1) \div 8) * 8 + 7) + 1

\* smallest free object slot
NewId(B) == CHOOSE i \in BufIds \ DOMAIN B : \A j \in BufIds \ DOMAIN B : i <= j

\* fl2000_alloc_sb (success): a zeroed buffer of `size` bytes, in_flight = 0
fl2000_alloc_sb(B, size) ==
    LET id == NewId(B)
    IN  [i \in DOMAIN B \cup {id} |-> IF i = id THEN [size |-> size, in_flight |-> 0] ELSE B[i]]

\* fl2000_free_sb
fl2000_free_sb(B, S) == [i \in DOMAIN B \ S |-> B[i]]


\* fl2000_stream_put_buffers: unlink and free every buffer of the three lists
fl2000_stream_put_buffers(B, L) ==
    [B |-> fl2000_free_sb(B, SeqToSet(L.r) \cup SeqToSet(L.t) \cup SeqToSet(L.w)),
     L |-> [r |-> <<>>, t |-> <<>>, w |-> <<>>]]

\* The allocation loop of fl2000_stream_get_buffers; the fail_at-th call of
\* fl2000_alloc_sb returns NULL (fail_at = 0: none does).
RECURSIVE get_buffers_loop(_, _, _, _, _)
get_buffers_loop(B, L, size, i, fail_at) ==
    IF i >= FL2000_SB_NUM
    THEN [B |-> B, L |-> L, ret |-> 0]
    ELSE IF i + 1 = fail_at
         THEN LET p == fl2000_stream_put_buffers(B, L)
              IN  [B |-> p.B, L |-> p.L, ret |-> ENOMEM]
         ELSE get_buffers_loop(fl2000_alloc_sb(B, size), list_add(L, NewId(B), "r"),
                               size, i + 1, fail_at)

fl2000_stream_get_buffers(B, L, size, fail_at) == get_buffers_loop(B, L, size, 0, fail_at)

complete_all_lost(d) == d

\* complete_all(&stream_complete)
complete_all(d) == UINT_MAX

reinit_completion_keep(d) == d

\* reinit_completion(&stream_complete): done = 0
reinit_completion(d) == 0

\* complete(&stream_complete)
complete(d) == IF d = UINT_MAX THEN d ELSE d + 1

\* the decrement of wait_for_completion_interruptible once done is not 0
consume(d) == IF d = UINT_MAX THEN d ELSE d - 1

(***************************************************************************)
(* fl2000_submit_urb (src/fl2000.h): rs[i] is what the i-th call of        *)
(* usb_submit_urb returns.                                                 *)
(***************************************************************************)
\* One pass of the do-while body: r is what usb_submit_urb returned.
\* `if (attempts--)` tests the old value and decrements in either case.
submit_step(r, attempts) ==
    LET resource == r \in {ENXIO, ENOMEM}
    IN  [ret |-> IF resource /\ attempts # 0 THEN EAGAIN ELSE r,
         attempts |-> IF resource THEN attempts - 1 ELSE attempts]

RECURSIVE submit_loop(_, _, _)
submit_loop(rs, i, attempts) ==
    LET st == submit_step(rs[i], attempts)
    IN  IF st.ret = EAGAIN /\ i < Len(rs)
        THEN submit_loop(rs, i + 1, st.attempts)
        ELSE [ret |-> st.ret, calls |-> i]

fl2000_submit_urb(rs) == submit_loop(rs, 1, 10)

\* Outcomes of the bus for one fl2000_submit_urb call: k transient errors e,
\* then r for every later attempt.
UsbSubmitResults ==
    { [i \in 1 .. 12 |-> IF i <= k THEN e ELSE r] :
        k \in {0, 10, 11}, e \in {ENXIO, ENOMEM}, r \in {0, ENODEV} }

\* Return values of usb_submit_urb (Documentation/driver-api/usb/error-codes.rst
\* lists -EAGAIN among them)
UsbSubmitReturns == {0, ENXIO, ENOMEM, EAGAIN, ENODEV}

\* attempts counted per call are capped at this many
MaxSubmitCalls == 13

\* no fl2000_submit_urb call is running
SuIdle == [pc |-> "idle", attempts |-> 0, ret |-> 0, calls |-> 0, last |-> 0]

\* entry of fl2000_submit_urb: int attempts = 10
SubmitCall ==
    /\ su.pc \in {"idle", "ret"}
    /\ su' = [pc |-> "call", attempts |-> 10, ret |-> 0, calls |-> 0, last |-> 0]
    /\ UNCHANGED <<mc, px, lk, stream>>

\* one pass of the do-while loop of fl2000_submit_urb; `while (ret == -EAGAIN)`
UsbSubmit ==
    /\ su.pc = "call"
    /\ su.calls < MaxSubmitCalls
    /\ \E r \in UsbSubmitReturns :
          LET st == submit_step(r, su.attempts)
          IN  su' = [pc |-> IF st.ret = EAGAIN THEN "call" ELSE "ret",
                     attempts |-> st.attempts,
                     ret |-> st.ret,
                     calls |-> su.calls + 1,
                     last |-> r]
    /\ UNCHANGED <<mc, px, lk, stream>>

(***************************************************************************)
(* Mode negotiation (src/unnamed/part_000): fl2000_get_bytes_pix,          *)
(* fl2000_pll_ppm_err, fl2000_pll_get_divisor, fl2000_pll_calc,            *)
(* fl2000_mode_calc.                                                       *)
(*                                                                         *)
(* A u64 holding a clock multiplied by FL2000_PLL_PRECISION is the pair    *)
(* <<hi, lo>> with value hi * 10^6 + lo and 0 <= lo < 10^6; all operators  *)
(* below compute the exact u64 results of the code for clocks from 1 MHz   *)
(* up to FL2000_MAX_PIXCLOCK with intermediate values below 2^31.          *)
(***************************************************************************)
FL2000_MAX_PIXCLOCK == 500000000
FL2000_PLL_PRECISION == 1000000
FL2000_XTAL == 10000000
FL2000_VCOCLOCK_MIN == 62500000
FL2000_VCOCLOCK_MAX == 1000000000
FL2000_PPM_ERR_MAX == 500
FL2000_BULK_BW_HIGH_SPEED == 60000000
FL2000_BULK_BW_SUPER_SPEED == 625000000
FL2000_BULK_BW_SUPER_SPEED_PLUS == 1250000000
prescaler_max == 2
multiplier_max == 128
max_h_adjustment == 10

\* (u64)(-1), the initial min_ppm_err; every computed error is below 2^31
U64_MAX == -1

\* a < b for u64 values
u64_less(a, b) == a # U64_MAX /\ (b = U64_MAX \/ a < b)

\* static const u32 divisor_arr[]
divisor_arr == <<2, 4, 6>> \o [i \in 1 .. 122 |-> i + 6]

\* t = <<q, r>> with k * a = q * y + r and r < y; the same for 2 * k
mul2(t, y) ==
    IF t[2] >= y - t[2] THEN <<t[1] + t[1] + 1, t[2] - (y - t[2])>>
    ELSE <<t[1] + t[1], t[2] + t[2]>>

\* the same for 2 * k + 1
mul2add(t, y, a) ==
    LET u == mul2(t, y)
    IN  IF u[2] >= y - a THEN <<u[1] + 1, u[2] - (y - a)>> ELSE <<u[1], u[2] + a>>

\* <<quotient, remainder>> of a * 10^6 by y for 0 <= a < y, along the binary
\* digits 11110100001001000000 of 10^6
mulmod(a, y) ==
    LET t1 == <<0, a>>
        t2 == mul2add(t1, y, a)
        t3 == mul2add(t2, y, a)
        t4 == mul2add(t3, y, a)
        t5 == mul2(t4, y)
        t6 == mul2add(t5, y, a)
        t7 == mul2(t6, y)
        t8 == mul2(t7, y)
        t9 == mul2(t8, y)
        t10 == mul2(t9, y)
        t11 == mul2add(t10, y, a)
        t12 == mul2(t11, y)
        t13 == mul2(t12, y)
        t14 == mul2add(t13, y, a)
        t15 == mul2(t14, y)
        t16 == mul2(t15, y)
        t17 == mul2(t16, y)
        t18 == mul2(t17, y)
        t19 == mul2(t18, y)
        t20 == mul2(t19, y)
    IN  t20

\* the u64 division (hi * 10^6 + lo) / y
div_mil(hi, lo, y) ==
    LET a0 == hi % y
        m == mulmod(a0, y)
    IN  (hi \div y) * FL2000_PLL_PRECISION + m[1] + (m[2] + lo) \div y

\* u64 pll_clk_mil = (u64)vco_clk * FL2000_PLL_PRECISION / divisor
pll_clk_mil(vco_clk, divisor) ==
    <<vco_clk \div divisor,
      ((vco_clk % divisor) * FL2000_PLL_PRECISION) \div divisor>>

\* fl2000_pll_ppm_err: |pll_clk_mil - clock_mil| / (clock_mil / FL2000_PLL_PRECISION)
fl2000_pll_ppm_err(clock_mil, vco_clk, divisor) ==
    LET p == pll_clk_mil(vco_clk, divisor)
        gt == p[1] > clock_mil[1] \/ (p[1] = clock_mil[1] /\ p[2] > clock_mil[2])
        x == IF gt THEN p ELSE clock_mil
        y == IF gt THEN clock_mil ELSE p
        eh == IF x[2] >= y[2] THEN x[1] - y[1] ELSE x[1] - y[1] - 1
        el == IF x[2] >= y[2] THEN x[2] - y[2] ELSE x[2] - y[2] + FL2000_PLL_PRECISION
    IN  div_mil(eh, el, clock_mil[1])

improves_or_ties(ppm_err, min_ppm_err) ==
    u64_less(ppm_err, min_ppm_err) \/ ppm_err = min_ppm_err

\* if (ppm_err < *min_ppm_err)
improves(ppm_err, min_ppm_err) == u64_less(ppm_err, min_ppm_err)

\* one pass of the for loop of fl2000_pll_get_divisor; acc holds
\* *min_ppm_err and best_divisor
get_divisor_step(clock_mil, vco_clk, divisor_idx, acc) ==
    LET divisor == divisor_arr[divisor_idx]
        ppm_err == fl2000_pll_ppm_err(clock_mil, vco_clk, divisor)
    IN  IF improves(ppm_err, acc.min_ppm_err)
        THEN [best_divisor |-> divisor, min_ppm_err |-> ppm_err]
        ELSE acc

\* the passes first .. last of the loop, in ascending order of divisor_idx
\* (the range is halved to keep the evaluation shallow)
RECURSIVE get_divisor_loop(_, _, _, _, _)
get_divisor_loop(clock_mil, vco_clk, first, last, acc) ==
    IF first = last
    THEN get_divisor_step(clock_mil, vco_clk, first, acc)
    ELSE LET mid == (first + last) \div 2
             left == get_divisor_loop(clock_mil, vco_clk, first, mid, acc)
         IN  \* the second half starts from what the first half left (a u32)
             CASE left.best_divisor >= 0 ->
                  get_divisor_loop(clock_mil, vco_clk, mid + 1, last, left)

\* u32 best_divisor = 0; the loop over divisor_arr; return best_divisor
fl2000_pll_get_divisor(clock_mil, vco_clk, min_ppm_err) ==
    get_divisor_loop(clock_mil, vco_clk, 1, Len(divisor_arr),
                     [best_divisor |-> 0, min_ppm_err |-> min_ppm_err])

\* u32 vco_clk = FL2000_XTAL / prescaler * multiplier
vco_clk_of(prescaler, multiplier) == (FL2000_XTAL \div prescaler) * multiplier

vco_any(vco_clk) == TRUE

\* not (vco_clk < FL2000_VCOCLOCK_MIN || vco_clk > FL2000_VCOCLOCK_MAX)
vco_in_range(vco_clk) ==
    ~(vco_clk < FL2000_VCOCLOCK_MIN \/ vco_clk > FL2000_VCOCLOCK_MAX)

\* pll->function
pll_function(vco_clk) ==
    IF vco_clk < 125000000 THEN 0
    ELSE IF vco_clk < 250000000 THEN 1
    ELSE IF vco_clk < 500000000 THEN 2
    ELSE 3

\* mode->clock * 1000 in int arithmetic; the kernel is built with
\* -fno-strict-overflow, so the product wraps to 32 bits
s32_mul1000(clock) ==
    LET hi == clock \div 65536
        lo == clock % 65536
        h == (hi * 1000 + (lo * 1000) \div 65536) % 65536
        l == (lo * 1000) % 65536
    IN  IF h >= 32768 THEN (h - 65536) * 65536 + l ELSE h * 65536 + l

\* if (mode->clock * 1000 > FL2000_MAX_PIXCLOCK) return -1;
above_ceiling(clock) == s32_mul1000(clock) > FL2000_MAX_PIXCLOCK

offset_step_by_one(d, m, s) == d + s

\* d += m * s
offset_step(d, m, s) == d + m * s

\* clock_mil * (mode->htotal + d) / mode->htotal with
\* clock_mil = (u64)mode->clock * 1000 * FL2000_PLL_PRECISION
clock_mil_scaled(clock, htotal, d) ==
    LET n == clock * (htotal + d)
        r0 == n % htotal
        d1 == (r0 * 1000) \div htotal
        r1 == (r0 * 1000) % htotal
        d2 == (r1 * 1000) \div htotal
        r2 == (r1 * 1000) % htotal
        d3 == (r2 * 1000) \div htotal
    IN  <<(n \div htotal) * 1000 + d1, d2 * 1000 + d3>>

acceptable_always(ppm_err) == TRUE

\* if (ppm_err < FL2000_PPM_ERR_MAX)
acceptable(ppm_err) == u64_less(ppm_err, FL2000_PPM_ERR_MAX)

\* enum usb_device_speed values a device can be attached at
UsbSpeeds == {"USB_SPEED_FULL", "USB_SPEED_HIGH", "USB_SPEED_SUPER", "USB_SPEED_SUPER_PLUS"}

clamp_none(x) == x

\* if (bytes_pix > 3) bytes_pix = 3;
clamp3(x) == IF x > 3 THEN 3 ELSE x

fl2000_get_bytes_pix(speed, pixclock) ==
    CASE speed = "USB_SPEED_HIGH" -> clamp3(FL2000_BULK_BW_HIGH_SPEED \div pixclock)
      [] speed = "USB_SPEED_SUPER" -> clamp3(FL2000_BULK_BW_SUPER_SPEED \div pixclock)
      [] speed = "USB_SPEED_SUPER_PLUS" ->
             clamp3(FL2000_BULK_BW_SUPER_SPEED_PLUS \div pixclock)
      [] OTHER -> 0

\* struct fl2000_pll on the caller's stack before fl2000_pll_calc wrote it
\* (it is not read before)
PllUnset == [prescaler |-> 0, multiplier |-> 0, divisor |-> 0, function |-> 0,
             min_ppm_err |-> 0]

\* no mode calculation is running
McIdle ==
    [pc |-> "idle",
     caller |-> "none",          \* who called fl2000_mode_calc
     mode |-> [clock |-> 0, htotal |-> 0, hdisplay |-> 0, vdisplay |-> 0],
     m |-> 0, s |-> 1, d |-> 0,  \* locals of fl2000_mode_calc
     clock_mil_adjusted |-> <<0, 0>>,
     prescaler |-> 0,            \* locals of fl2000_pll_calc
     multiplier |-> 0,
     min_ppm_err |-> U64_MAX,
     pll |-> PllUnset,
     clock_calculated |-> 0,
     adjusted_mode |-> [written |-> FALSE, htotal |-> 0, clock |-> 0],
     ret |-> 0,                  \* what fl2000_mode_calc returned
     status |-> "",              \* what fl2000_display_mode_valid returned
     speed |-> "",               \* usb_dev->speed as read
     bytes_pix |-> 0,
     offsets |-> <<>>,           \* history: the values of d tried, in order
     errs |-> <<>>,              \* history: what fl2000_pll_calc returned per offset
     vco_seen |-> 0]             \* history: vco_clk handed to fl2000_pll_get_divisor
                                 \*          by the latest pass, 0 if it was skipped

\* urb->status values of a transfer that completes on its own
(***************************************************************************)
(* The line converters of fl2000_stream_compress, per pixel.  A u32 is the *)
(* pair <<bits 31..16, bits 15..0>>.                                       *)
(***************************************************************************)
RECURSIVE bit_and(_, _)
\* a & b on values below 2^16
bit_and(a, b) ==
    IF a = 0 \/ b = 0 THEN 0
    ELSE (a % 2) * (b % 2) + 2 * bit_and(a \div 2, b \div 2)

\* p & m on u32
u32_and(p, m) == <<bit_and(p[1], m[1]), bit_and(p[2], m[2])>>

\* a | b on u32
u32_or(a, b) ==
    <<a[1] + b[1] - bit_and(a[1], b[1]), a[2] + b[2] - bit_and(a[2], b[2])>>

\* p >> n on u32, 0 <= n <= 16
u32_shr(p, n) == <<p[1] \div 2^n, (p[1] % 2^n) * 2^(16 - n) + p[2] \div 2^n>>

\* the three bytes stored for one pixel, in the order of the stores
fl2000_xrgb888_to_rgb888_line(pix) ==
    << u32_shr(u32_and(pix, <<0, 255>>), 0)[2] % 256,
       u32_shr(u32_and(pix, <<0, 65280>>), 8)[2] % 256,
       u32_shr(u32_and(pix, <<255, 0>>), 16)[2] % 256 >>

\* val565 with the green mask one bit short
rgb565_green5(pix) ==
    << u32_or(u32_or(u32_shr(u32_and(pix, <<248, 0>>), 8),
                     u32_shr(u32_and(pix, <<0, 63488>>), 5)),
              u32_shr(u32_and(pix, <<0, 248>>), 3))[2] >>

\* u16 val565
fl2000_xrgb888_to_rgb565_line(pix) ==
    << u32_or(u32_or(u32_shr(u32_and(pix, <<248, 0>>), 8),
                     u32_shr(u32_and(pix, <<0, 64512>>), 5)),
              u32_shr(u32_and(pix, <<0, 248>>), 3))[2] >>

\* u8 val233
fl2000_xrgb888_to_rgb233_line(pix) ==
    << u32_or(u32_or(u32_shr(u32_and(pix, <<192, 0>>), 16),
                     u32_shr(u32_and(pix, <<0, 57344>>), 10)),
              u32_shr(u32_and(pix, <<0, 224>>), 5))[2] % 256 >>

\* switch (fl2000_dev->bytes_pix) of fl2000_stream_compress: the values stored
\* for one source pixel
convert_line(bpp, pix) ==
    CASE bpp = 1 -> fl2000_xrgb888_to_rgb233_line(pix)
      [] bpp = 2 -> fl2000_xrgb888_to_rgb565_line(pix)
      [] bpp = 3 -> fl2000_xrgb888_to_rgb888_line(pix)
      [] OTHER -> <<>>

\* x ^ m for a power of two m: bit m of the index is flipped
swizzle(x, m) == IF (x \div m) % 2 = 0 THEN x + m ELSE x - m

\* byte offsets, from the start of the destination line, that the line
\* converter stores to for source pixel x: dbuf[x ^ 4] (u8), dbuf[x ^ 2] (u16),
\* dbuf[xx++ ^ 4] three times (u8)
line_store(bpp, x) ==
    CASE bpp = 1 -> {swizzle(x, 4)}
      [] bpp = 2 -> {2 * swizzle(x, 2), 2 * swizzle(x, 2) + 1}
      [] bpp = 3 -> {swizzle(3 * x, 4), swizzle(3 * x + 1, 4), swizzle(3 * x + 2, 4)}
      [] OTHER -> {}

\* s repeated n times
Rep(s, n) == [i \in 1 .. n * Len(s) |-> s[((i - 1) % Len(s)) + 1]]

(***************************************************************************)
(* The operations of one call of a streaming function, in program order.   *)
(*   compress:        a = 0 render_list empty, 1 head of the right size,   *)
(*                    2 head replaced; b lines in the frame                *)
(*   work:            one iteration; a = 1 with the zero-length companion  *)
(*   data_completion: a = 0 error status, 1 in_flight stays above 0,       *)
(*                    2 buffer returned to render_list                     *)
(*   enable:          a = fail_at of fl2000_stream_get_buffers             *)
(*   disable/release: a buffers on transmit_list and wait_list, b more on  *)
(*                    render_list                                          *)
(***************************************************************************)
lock_ops(fn, a, b) ==
    CASE fn = "compress" ->
             <<"spin_lock_irq", "list_empty">>
             \o (IF a = 0 THEN <<>> ELSE
                    <<"list_first_entry">>
                    \o (IF a = 2
                        THEN <<"list_del", "fl2000_free_sb", "fl2000_alloc_sb", "list_add">>
                        ELSE <<>>)
                    \o Rep(<<"convert_line">>, b)
                    \o <<"list_move_tail">>)
             \o <<"spin_unlock">>
      [] fn = "work" ->
             <<"wait_for_completion", "spin_lock_irq", "list_empty", "list_entry",
               "list_move_tail", "spin_unlock", "usb_alloc_urb", "usb_submit_urb">>
             \o (IF a = 1 THEN <<"usb_alloc_urb", "usb_submit_urb">> ELSE <<>>)
      [] fn = "data_completion" ->
             (IF a = 0 THEN <<>> ELSE
                 <<"spin_lock_irq">>
                 \o (IF a = 2 THEN <<"list_move_tail">> ELSE <<>>)
                 \o <<"spin_unlock", "drm_crtc_handle_vblank", "complete">>)
             \o <<"usb_free_urb">>
      [] fn = "mode_set" ->
             <<"spin_lock_irq", "store", "spin_unlock">>
      [] fn = "enable" ->
             <<"list_empty">>
             \o Rep(<<"fl2000_alloc_sb", "list_add">>, IF a = 0 THEN FL2000_SB_NUM ELSE a - 1)
             \o (IF a = 0 THEN <<>>
                 ELSE <<"fl2000_alloc_sb">> \o Rep(<<"list_del", "fl2000_free_sb">>, a - 1))
             \o <<"reinit_completion">> \o Rep(<<"complete">>, FL2000_SB_MIN)
             \o <<"store", "queue_work">>
      [] fn \in {"disable", "release"} ->
             <<"store", "complete_all", "cancel_work_sync", "drain_workqueue",
               "usb_wait_anchor_empty_timeout", "usb_kill_anchored_urbs", "spin_lock_irq">>
             \o Rep(<<"list_empty", "list_move_tail">>, a)
             \o Rep(<<"list_del", "fl2000_free_sb">>, a + b)
             \o <<"spin_unlock">>
             \o (IF fn = "release" THEN <<"destroy_workqueue">> ELSE <<>>)

LkIdle == [pc |-> "idle", fn |-> "", ops |-> <<>>, i |-> 0, held |-> FALSE, op |-> ""]

PxIdle == [pc |-> "idle", bytes_pix |-> 0, pix |-> <<0, 0>>, out |-> <<>>,
           width |-> 0, height |-> 0, size |-> 0, x |-> 0, y |-> 0, idx |-> {}]

UrbStatus == {0, EPIPE}

DataUrb(b) == [kind |-> "data", sb |-> b]
ZeroUrb == [kind |-> "zero", sb |-> 0]

NoData == [size |-> -1, zero_packet |-> FALSE, ep |-> 0, issued |-> 0, accepted |-> 0, zep |-> 0]

(***************************************************************************)
(* Initial state: after fl2000_stream_create on a zeroed struct fl2000     *)
(***************************************************************************)
StreamInit ==
    /\ bufs = << >>
    /\ render_list = <<>>
    /\ transmit_list = <<>>
    /\ wait_list = <<>>
    /\ buf_size = 0
    /\ bytes_pix = 0
    /\ enabled = FALSE
    /\ done = 0
    /\ anchor = <<>>
    /\ wpc = "idle"
    /\ cur_sb = 0
    /\ dpc = "idle"
    /\ active = FALSE
    /\ fault = "none"
    /\ enc_order = <<>>
    /\ dropped = FALSE
    /\ ndisturb = 0
    /\ ms_pixels = 0
    /\ last_data = NoData
    /\ ndisable = 0
    /\ snap = <<>>
    /\ uaf = FALSE

Init == StreamInit /\ su = SuIdle /\ mc = McIdle /\ px = PxIdle /\ lk = LkIdle

SetLists(L) ==
    /\ render_list' = L.r
    /\ transmit_list' = L.t
    /\ wait_list' = L.w

hist == <<enc_order, dropped, ndisturb, ms_pixels, last_data, ndisable, snap, uaf>>
lists == <<render_list, transmit_list, wait_list>>

(***************************************************************************)
(* fl2000_stream_mode_set                                                  *)
(***************************************************************************)
fl2000_stream_mode_set(pixels, bpp) ==
    /\ fault = "none"
    /\ dpc = "idle"
    /\ bytes_pix' = bpp
    /\ buf_size' = round_up8(pixels * bpp)
    /\ ms_pixels' = pixels
    /\ ndisturb' = IF active THEN ndisturb + 1 ELSE ndisturb
    /\ UNCHANGED <<bufs, lists, enabled, done, anchor, wpc, cur_sb, dpc, active, fault,
                   enc_order, dropped, last_data, ndisable, snap, uaf>>

(***************************************************************************)
(* fl2000_stream_enable, called by fl2000_display_enable: the DRM pipe is  *)
(* not active and no fl2000_stream_disable is running.  The result of      *)
(* fl2000_stream_get_buffers is not looked at.                             *)
(***************************************************************************)
fl2000_stream_enable(fail_at) ==
    /\ fault = "none"
    /\ dpc = "idle"
    /\ ~active
    /\ IF ~list_empty(render_list)
       THEN /\ fault' = "bug_on"
            /\ UNCHANGED <<bufs, lists, enabled, done, wpc, active, ndisable, dropped, ndisturb,
                           snap>>
       ELSE LET g == fl2000_stream_get_buffers(bufs, Lists, buf_size, fail_at)
            IN  /\ bufs' = g.B
                /\ SetLists(g.L)
                /\ done' = complete(complete(complete(reinit_completion(done))))
                /\ enabled' = TRUE
                /\ wpc' = IF wpc = "idle" THEN "pending" ELSE wpc
                /\ active' = TRUE
                /\ ndisable' = 0
                /\ snap' = <<>>
                /\ ndisturb' = 0
                /\ dropped' = (dropped /\ list_empty(g.L.r))
                /\ fault' = fault
    /\ UNCHANGED <<buf_size, bytes_pix, anchor, cur_sb, dpc,
                   enc_order, ms_pixels, last_data, uaf>>


\* the newest buffer of render_list instead of the first
select_for_encode_last(L) == IF list_empty(L.r) THEN 0 ELSE list_last_entry(L.r)

\* the buffer fl2000_stream_compress encodes into: the first of render_list,
\* none (0, goto list_empty) when render_list is empty
select_for_encode(L) == IF list_empty(L.r) THEN 0 ELSE list_first_entry(L.r)

needs_realloc_never(size, bsize) == FALSE

\* if (cur_sb->size != fl2000_dev->buf_size)
needs_realloc(size, bsize) == size # bsize

encode_enqueue_head(L, b) == list_add(list_del(L, b), b, "t")

\* the encoded buffer goes to the tail of transmit_list
encode_enqueue(L, b) == list_move_tail(L, b, "t")

(***************************************************************************)
(* fl2000_stream_compress, called by fl2000_display_update in the DRM       *)
(* commit context, which also runs enable and disable: it does not overlap *)
(* a running fl2000_stream_disable.  The whole function runs under         *)
(* list_lock.                                                              *)
(* alloc_ok: whether fl2000_alloc_sb of the reallocation path succeeds;    *)
(* its NULL result is not checked, list_add then dereferences it.          *)
(***************************************************************************)
fl2000_stream_compress(alloc_ok) ==
    /\ fault = "none"
    /\ dpc = "idle"
    /\ IF select_for_encode(Lists) = 0
       THEN /\ dropped' = TRUE
            /\ UNCHANGED <<bufs, lists, enc_order, fault>>
       ELSE LET cur == select_for_encode(Lists)
                wrong == needs_realloc(bufs[cur].size, buf_size)
                B1 == IF wrong THEN fl2000_free_sb(bufs, {cur}) ELSE bufs
                L1 == IF wrong THEN list_del(Lists, cur) ELSE Lists
            IN  IF wrong /\ ~alloc_ok
                THEN /\ fault' = "null_deref"
                     /\ bufs' = B1
                     /\ SetLists(L1)
                     /\ enc_order' = Remove(enc_order, cur)
                     /\ UNCHANGED dropped
                ELSE LET new == IF wrong THEN NewId(B1) ELSE cur
                         B2 == IF wrong THEN fl2000_alloc_sb(B1, buf_size) ELSE B1
                         L2 == IF wrong THEN list_add(L1, new, "r") ELSE L1
                     IN  /\ bufs' = B2
                         /\ SetLists(encode_enqueue(L2, new))
                         /\ enc_order' = Append(Remove(enc_order, cur), new)
                         /\ dropped' = FALSE
                         /\ fault' = fault
    /\ UNCHANGED <<buf_size, bytes_pix, enabled, done, anchor, wpc, cur_sb, dpc, active,
                   ndisturb, ms_pixels, last_data, ndisable, snap, uaf>>

(***************************************************************************)
(* fl2000_stream_work                                                      *)
(***************************************************************************)
\* the workqueue starts the queued work item
WorkStart ==
    /\ fault = "none"
    /\ UNCHANGED calc
    /\ wpc = "pending"
    /\ wpc' = "while"
    /\ UNCHANGED <<bufs, lists, buf_size, bytes_pix, enabled, done, anchor, cur_sb, dpc,
                   active, fault, hist>>

\* while (fl2000_dev->enabled); the local cur_sb is dead once the function returns
WorkWhile ==
    /\ fault = "none"
    /\ UNCHANGED calc
    /\ wpc = "while"
    /\ wpc' = IF enabled THEN "wait" ELSE "idle"
    /\ cur_sb' = IF enabled THEN cur_sb ELSE 0
    /\ UNCHANGED <<bufs, lists, buf_size, bytes_pix, enabled, done, anchor, dpc,
                   active, fault, hist>>

\* wait_for_completion_interruptible returns once done > 0 (a workqueue thread
\* receives no signal), then enabled is read again
WorkWait ==
    /\ fault = "none"
    /\ UNCHANGED calc
    /\ wpc = "wait"
    /\ done # 0
    /\ done' = consume(done)
    /\ wpc' = IF enabled THEN "select" ELSE "idle"
    /\ cur_sb' = IF enabled THEN cur_sb ELSE 0
    /\ UNCHANGED <<bufs, lists, buf_size, bytes_pix, enabled, anchor, dpc,
                   active, fault, hist>>

select_lifo(L) ==
    IF ~list_empty(L.t) THEN list_last_entry(L.t)
    ELSE IF list_empty(L.w) THEN list_last_entry(L.r) ELSE list_last_entry(L.w)

\* the fallback looks at render_list before wait_list
select_render_first(L) ==
    IF list_empty(L.t)
    THEN IF list_empty(L.r) THEN list_last_entry(L.w) ELSE list_last_entry(L.r)
    ELSE list_first_entry(L.t)

\* the buffer fl2000_stream_work picks under list_lock
select_for_transmit(L) ==
    IF list_empty(L.t)
    THEN IF list_empty(L.w) THEN list_last_entry(L.r) ELSE list_last_entry(L.w)
    ELSE list_first_entry(L.t)

\* the locked section: select, in_flight++, move to the tail of wait_list
WorkSelect ==
    /\ fault = "none"
    /\ UNCHANGED calc
    /\ wpc = "select"
    /\ IF list_empty(transmit_list) /\ list_empty(wait_list) /\ list_empty(render_list)
       THEN /\ fault' = "bad_list_entry"
            /\ UNCHANGED <<bufs, lists, wpc, cur_sb>>
       ELSE LET cur == select_for_transmit(Lists)
            IN  /\ bufs' = [bufs EXCEPT ![cur].in_flight = @ + 1]
                /\ SetLists(list_move_tail(Lists, cur, "w"))
                /\ cur_sb' = cur
                /\ wpc' = "submit"
                /\ fault' = fault
    /\ UNCHANGED <<buf_size, bytes_pix, enabled, done, anchor, dpc, active, hist>>

\* URB_ZERO_PACKET is set on the data URB iff size is a multiple of max_packet
zero_packet_flag(size) == size % max_packet = 0

needs_companion_never(size) == FALSE

\* a zero-length URB follows iff size is not a multiple of max_packet
needs_companion(size) == size % max_packet # 0

\* usb_alloc_urb, usb_fill_bulk_urb, usb_anchor_urb and fl2000_submit_urb of
\* the data URB
WorkSubmitData(alloc_ok, rs) ==
    /\ fault = "none"
    /\ wpc = "submit"
    /\ IF ~alloc_ok
       THEN /\ wpc' = "idle"
            /\ UNCHANGED <<enabled, anchor, last_data>>
       ELSE LET ret == fl2000_submit_urb(rs).ret
                size == bufs[cur_sb].size
            IN  IF ret # 0
                THEN /\ enabled' = FALSE
                     /\ wpc' = "idle"
                     /\ UNCHANGED <<anchor, last_data>>
                ELSE /\ anchor' = Append(anchor, DataUrb(cur_sb))
                     /\ last_data' = [size |-> size, zero_packet |-> zero_packet_flag(size),
                                      ep |-> 1, issued |-> 0, accepted |-> 0, zep |-> 0]
                     /\ wpc' = IF needs_companion(size) THEN "zero" ELSE "while"
                     /\ UNCHANGED enabled
    /\ cur_sb' = IF wpc' = "idle" THEN 0 ELSE cur_sb
    /\ UNCHANGED <<bufs, lists, buf_size, bytes_pix, done, dpc, active, fault,
                   enc_order, dropped, ndisturb, ms_pixels, ndisable, snap, uaf>>

\* the zero-length companion URB; usb_alloc_urb's NULL result is not checked,
\* usb_anchor_urb then dereferences it
WorkSubmitZero(alloc_ok, rs) ==
    /\ fault = "none"
    /\ wpc = "zero"
    /\ IF ~alloc_ok
       THEN /\ fault' = "null_deref"
            /\ UNCHANGED <<enabled, anchor, last_data, wpc>>
       ELSE LET ret == fl2000_submit_urb(rs).ret
            IN  /\ fault' = fault
                /\ IF ret # 0
                   THEN /\ enabled' = FALSE
                        /\ wpc' = "idle"
                        /\ last_data' = [last_data EXCEPT !.issued = @ + 1, !.zep = 1]
                        /\ UNCHANGED anchor
                   ELSE /\ anchor' = Append(anchor, ZeroUrb)
                        /\ last_data' = [last_data EXCEPT !.issued = @ + 1,
                                                          !.accepted = @ + 1, !.zep = 1]
                        /\ wpc' = "while"
                        /\ UNCHANGED enabled
    /\ cur_sb' = IF wpc' = "idle" THEN 0 ELSE cur_sb
    /\ UNCHANGED <<bufs, lists, buf_size, bytes_pix, done, dpc, active,
                   enc_order, dropped, ndisturb, ms_pixels, ndisable, snap, uaf>>

(***************************************************************************)
(* URB completion handlers.  L, B, d: lists, buffers and credits before.   *)
(***************************************************************************)
\* if (!urb->status) of fl2000_stream_data_completion
completion_accounts(status) == status = 0

reusable_always(n) == TRUE

\* if (!cur_sb->in_flight): the buffer goes back to render_list
reusable(n) == n = 0

\* fl2000_urb_status (src/fl2000.h): -EPIPE is answered with usb_clear_halt,
\* whose result clear_ret is returned; every other status is returned as it is
fl2000_urb_status(status, clear_ret) ==
    IF status = EPIPE THEN [ret |-> clear_ret, clear_halt |-> 1]
    ELSE [ret |-> status, clear_halt |-> 0]

\* fl2000_stream_data_completion for the URB of buffer b; vblank: the calls of
\* drm_crtc_handle_vblank it makes; clear_halt: the calls of usb_clear_halt
data_completion(B, L, d, b, status) ==
    IF completion_accounts(status)
    THEN LET n == B[b].in_flight - 1
         IN  [B |-> [B EXCEPT ![b].in_flight = n],
              L |-> IF reusable(n) THEN list_move_tail(L, b, "r") ELSE L,
              d |-> complete(d),
              vblank |-> 1,
              clear_halt |-> fl2000_urb_status(status, 0).clear_halt]
    ELSE [B |-> B, L |-> L, d |-> d, vblank |-> 0, clear_halt |-> 0]

\* completion handler of urb u with status st
urb_completion(B, L, d, u, st) ==
    IF u.kind = "data" THEN data_completion(B, L, d, u.sb, st)
    ELSE [B |-> B, L |-> L, d |-> d, vblank |-> 0, clear_halt |-> 0]

\* the bus gives back the oldest URB of the endpoint
Complete(st) ==
    /\ fault = "none"
    /\ UNCHANGED calc
    /\ anchor # <<>>
    /\ LET u == Head(anchor)
       IN  IF u.kind = "data" /\ u.sb \notin DOMAIN bufs
           THEN /\ uaf' = TRUE
                /\ UNCHANGED <<bufs, lists, done>>
           ELSE LET c == urb_completion(bufs, Lists, done, u, st)
                IN  /\ bufs' = c.B
                    /\ SetLists(c.L)
                    /\ done' = c.d
                    /\ UNCHANGED uaf
    /\ anchor' = Tail(anchor)
    /\ dropped' = (dropped /\ list_empty(render_list'))
    /\ UNCHANGED <<buf_size, bytes_pix, enabled, wpc, cur_sb, dpc, active, fault,
                   enc_order, ms_pixels, last_data, ndisable, snap>>


(***************************************************************************)
(* fl2000_stream_disable (also called by fl2000_stream_release)            *)
(***************************************************************************)
\* enabled = false; complete_all(&stream_complete)
DisableStart ==
    /\ fault = "none"
    /\ UNCHANGED calc
    /\ dpc = "idle"
    /\ enabled' = FALSE
    /\ done' = complete_all(done)
    /\ dpc' = "cancel"
    /\ UNCHANGED <<bufs, lists, buf_size, bytes_pix, anchor, wpc, cur_sb, active, fault, hist>>

\* cancel_work_sync / drain_workqueue: a queued work item is cancelled, a
\* running one is waited for
DisableCancel ==
    /\ fault = "none"
    /\ UNCHANGED calc
    /\ dpc = "cancel"
    /\ wpc \in {"idle", "pending"}
    /\ wpc' = "idle"
    /\ dpc' = "wait_anchor"
    /\ UNCHANGED <<bufs, lists, buf_size, bytes_pix, enabled, done, anchor, cur_sb, active,
                   fault, hist>>

\* the pool is released with the transfers still anchored
DisableWaitAnchor_nokill ==
    /\ fault = "none"
    /\ UNCHANGED calc
    /\ dpc = "wait_anchor"
    /\ dpc' = "drain"
    /\ UNCHANGED <<bufs, lists, buf_size, bytes_pix, enabled, done, anchor, wpc, cur_sb,
                   active, fault, hist>>

\* usb_wait_anchor_empty_timeout(&anchor, 1000): returns when the anchor is
\* empty, or 0 after the timeout
DisableWaitAnchor ==
    /\ fault = "none"
    /\ UNCHANGED calc
    /\ dpc = "wait_anchor"
    /\ dpc' = IF anchor = <<>> THEN "drain" ELSE "kill"
    /\ UNCHANGED <<bufs, lists, buf_size, bytes_pix, enabled, done, anchor, wpc, cur_sb,
                   active, fault, hist>>

\* usb_kill_anchored_urbs: unlinks the newest anchored URB, whose completion
\* handler runs with status -ENOENT, until the anchor is empty
DisableKill ==
    /\ fault = "none"
    /\ UNCHANGED calc
    /\ dpc = "kill"
    /\ IF anchor = <<>>
       THEN /\ dpc' = "drain"
            /\ UNCHANGED <<bufs, lists, done, anchor, uaf>>
       ELSE LET u == Last(anchor)
            IN  /\ IF u.kind = "data" /\ u.sb \notin DOMAIN bufs
                   THEN /\ uaf' = TRUE
                        /\ UNCHANGED <<bufs, lists, done>>
                   ELSE LET c == urb_completion(bufs, Lists, done, u, ENOENT)
                        IN  /\ bufs' = c.B
                            /\ SetLists(c.L)
                            /\ done' = c.d
                            /\ UNCHANGED uaf
                /\ anchor' = SubSeq(anchor, 1, Len(anchor) - 1)
                /\ UNCHANGED dpc
    /\ dropped' = (dropped /\ list_empty(render_list'))
    /\ UNCHANGED <<buf_size, bytes_pix, enabled, wpc, cur_sb, active, fault,
                   enc_order, ndisturb, ms_pixels, last_data, ndisable, snap>>

RECURSIVE drain_to_render(_, _)
\* while (!list_empty(from)) list_move_tail(first entry, &render_list)
drain_to_render(L, from) ==
    IF list_empty(L[from]) THEN L
    ELSE drain_to_render(list_move_tail(L, list_first_entry(L[from]), "r"), from)

put_buffers_keep_lists(B, L) == [B |-> fl2000_stream_put_buffers(B, L).B, L |-> L]

\* what fl2000_stream_disable does to the pool under list_lock
disable_release(B, L) ==
    fl2000_stream_put_buffers(B, drain_to_render(drain_to_render(L, "t"), "w"))

StateSummary(e, L, a) == [enabled |-> e, r |-> L.r, t |-> L.t, w |-> L.w, anchor |-> a]

\* the locked tail of fl2000_stream_disable, then return
DisableDrain ==
    /\ fault = "none"
    /\ UNCHANGED calc
    /\ dpc = "drain"
    /\ LET L0 == Lists
           touched == SeqToSet(L0.r) \cup SeqToSet(L0.t) \cup SeqToSet(L0.w)
           p == disable_release(bufs, L0)
       IN  /\ bufs' = p.B
           /\ SetLists(p.L)
           /\ uaf' = (uaf \/ ~(touched \subseteq DOMAIN bufs))
           /\ snap' = IF ndisable = 0
                      THEN <<StateSummary(enabled, p.L, anchor)>>
                      ELSE <<snap[1], StateSummary(enabled, p.L, anchor)>>
    /\ dpc' = "idle"
    /\ active' = FALSE
    /\ ndisable' = IF ndisable < 2 THEN ndisable + 1 ELSE ndisable
    /\ enc_order' = <<>>
    /\ dropped' = FALSE
    /\ last_data' = NoData
    /\ UNCHANGED <<buf_size, bytes_pix, enabled, done, anchor, wpc, cur_sb, fault,
                   ndisturb, ms_pixels>>

(***************************************************************************)
(* Specification                                                           *)
(***************************************************************************)
\* fl2000_output_mode_set calling fl2000_stream_mode_set, at any time
ModeSet ==
    \E a \in ModeArgs :
        /\ active => ndisturb < MaxDisturb
        /\ fl2000_stream_mode_set(a[1], a[2])
        /\ UNCHANGED calc

\* the same while the pipe is not active (between display_disable and display_enable)
ModeSetInactive ==
    \E a \in ModeArgs : ~active /\ fl2000_stream_mode_set(a[1], a[2]) /\ UNCHANGED calc
Enable ==
    \E fail_at \in 0 .. FL2000_SB_NUM : fl2000_stream_enable(fail_at) /\ UNCHANGED calc
Compress ==
    \E alloc_ok \in BOOLEAN : fl2000_stream_compress(alloc_ok) /\ UNCHANGED calc
SubmitData ==
    \E alloc_ok \in BOOLEAN, rs \in UsbSubmitResults :
        WorkSubmitData(alloc_ok, rs) /\ UNCHANGED calc
SubmitZero ==
    \E alloc_ok \in BOOLEAN, rs \in UsbSubmitResults :
        WorkSubmitZero(alloc_ok, rs) /\ UNCHANGED calc
\* a transfer completes on its own; an error status of a data URB is a disturbance
Completion ==
    \E st \in UrbStatus :
        LET err == st # 0 /\ anchor # <<>> /\ Head(anchor).kind = "data"
        IN  /\ err => ndisturb < MaxDisturb
            /\ Complete(st)
            /\ ndisturb' = IF err THEN ndisturb + 1 ELSE ndisturb

\* a transfer completes on its own with any status, any number of times
CompletionAnyStatus == \E st \in UrbStatus : Complete(st) /\ UNCHANGED ndisturb

\* a transfer completes on its own with status 0
CompletionOk == Complete(0) /\ UNCHANGED ndisturb

Worker == WorkStart \/ WorkWhile \/ WorkWait \/ WorkSelect \/ SubmitData \/ SubmitZero
Disable == DisableStart \/ DisableCancel \/ DisableWaitAnchor \/ DisableKill \/ DisableDrain

Next ==
    \/ ModeSet
    \/ Enable
    \/ Compress
    \/ WorkStart
    \/ WorkWhile
    \/ WorkWait
    \/ WorkSelect
    \/ SubmitData
    \/ SubmitZero
    \/ Completion
    \/ DisableStart
    \/ DisableCancel
    \/ DisableWaitAnchor
    \/ DisableKill
    \/ DisableDrain

Spec == Init /\ [][Next]_vars

\* Error-status completions without limit, the mode changes only while the
\* pipe is not active
NextErr ==
    \/ ModeSetInactive
    \/ Enable
    \/ Compress
    \/ WorkStart
    \/ WorkWhile
    \/ WorkWait
    \/ WorkSelect
    \/ SubmitData
    \/ SubmitZero
    \/ CompletionAnyStatus
    \/ DisableStart
    \/ DisableCancel
    \/ DisableWaitAnchor
    \/ DisableKill
    \/ DisableDrain

ErrSpec == Init /\ [][NextErr]_vars

\* No transfer fails on its own, the mode changes only while the pipe is not active
NextQuiet ==
    \/ ModeSetInactive
    \/ Enable
    \/ Compress
    \/ WorkStart
    \/ WorkWhile
    \/ WorkWait
    \/ WorkSelect
    \/ SubmitData
    \/ SubmitZero
    \/ CompletionOk
    \/ DisableStart
    \/ DisableCancel
    \/ DisableWaitAnchor
    \/ DisableKill
    \/ DisableDrain

\* The workqueue thread runs the work item; a started fl2000_stream_disable
\* runs on.  Transfers need not complete on their own.
DisableRun == DisableCancel \/ DisableWaitAnchor \/ DisableKill \/ DisableDrain

\* fl2000_submit_urb on its own, the bus free to return anything per attempt
SubmitNext == SubmitCall \/ UsbSubmit

SubmitSpec == Init /\ [][SubmitNext]_vars

FairSpec == Init /\ [][NextQuiet]_vars /\ WF_vars(Worker) /\ WF_vars(DisableRun)

TypeOK ==
    /\ DOMAIN bufs \subseteq BufIds
    /\ done \in (0 .. FL2000_SB_MIN) \cup {UINT_MAX}
    /\ \A b \in DOMAIN bufs : bufs[b].in_flight \in 0 .. FL2000_SB_MIN
    /\ Len(anchor) <= 2 * FL2000_SB_MIN + 1


(***************************************************************************)
(* fl2000_display_mode_valid and fl2000_output_mode_set, stepped:          *)
(* fl2000_mode_calc per loop pass, fl2000_pll_calc per pass of its inner   *)
(* loop.                                                                   *)
(***************************************************************************)

\* modes handed to fl2000_display_mode_valid: [clock (kHz), htotal, hdisplay, vdisplay]
ValidModes ==
    { [clock |-> 148500, htotal |-> 2200, hdisplay |-> 1920, vdisplay |-> 1080],
      [clock |-> 497000, htotal |-> 4000, hdisplay |-> 3840, vdisplay |-> 2160],
      [clock |-> 500001, htotal |-> 2200, hdisplay |-> 1920, vdisplay |-> 1080] }

\* modes handed to fl2000_output_mode_set
SetModes ==
    { [clock |-> 25175, htotal |-> 800, hdisplay |-> 640, vdisplay |-> 480],
      [clock |-> 65000, htotal |-> 1344, hdisplay |-> 1024, vdisplay |-> 768],
      [clock |-> 500000, htotal |-> 2200, hdisplay |-> 1920, vdisplay |-> 1080] }

\* clock_mil values handed to fl2000_pll_calc on its own
PllClocks ==
    { <<1000000, 0>>, <<25000000, 0>>, <<33333333, 333333>>,
      <<148500000, 0>>, <<499124750, 0>>, <<500000000, 0>> }

\* mode->clock values for the ceiling check of fl2000_mode_calc
CeilingClocks ==
    (499990 .. 500010) \cup (2147474 .. 2147494) \cup (4294958 .. 4294978)
    \cup {1000, 25175, 148500, 1000000, 2000000, 2500000, 3000000, 2147483647}

\* entry of fl2000_mode_calc from `caller`: const int max_h_adjustment = 10; int d = 0;
mode_calc_enter(caller, mode) ==
    /\ mc.pc = "idle"
    /\ mc' = [McIdle EXCEPT !.pc = "ceiling", !.caller = caller, !.mode = mode]
    /\ UNCHANGED <<su, px, lk, stream>>

DisplayModeValid == \E mode \in ValidModes : mode_calc_enter("mode_valid", mode)

OutputModeSet == \E mode \in SetModes : mode_calc_enter("output_mode_set", mode)

\* if (mode->clock * 1000 > FL2000_MAX_PIXCLOCK) return -1; else for (m = 0, s = 1; ...
ModeCalcCeiling ==
    /\ mc.pc = "ceiling"
    /\ mc' = IF above_ceiling(mc.mode.clock)
             THEN [mc EXCEPT !.pc = "mc_ret", !.ret = -1]
             ELSE [mc EXCEPT !.pc = "search", !.m = 0, !.s = 1, !.d = 0]
    /\ UNCHANGED <<su, px, lk, stream>>

\* loop test and the head of one pass: d += m * s; clock_mil_adjusted = ...;
\* entry of fl2000_pll_calc (u64 min_ppm_err = (u64)(-1)); after the last
\* pass return -1
ModeCalcSearch ==
    /\ mc.pc = "search"
    /\ mc' = IF mc.m <= max_h_adjustment * 2
             THEN LET d == offset_step(mc.d, mc.m, mc.s)
                  IN  [mc EXCEPT !.pc = "pll",
                                 !.d = d,
                                 !.clock_mil_adjusted =
                                     clock_mil_scaled(mc.mode.clock, mc.mode.htotal, d),
                                 !.prescaler = 1,
                                 !.multiplier = 1,
                                 !.min_ppm_err = U64_MAX,
                                 !.offsets = Append(@, d)]
             ELSE [mc EXCEPT !.pc = "mc_ret", !.ret = -1]
    /\ UNCHANGED <<su, px, lk, stream>>

\* one pass of the inner loop of fl2000_pll_calc, the loop increments included
PllStep ==
    /\ mc.pc = "pll"
    /\ mc.prescaler <= prescaler_max
    /\ LET vco_clk == vco_clk_of(mc.prescaler, mc.multiplier)
           last == mc.multiplier = multiplier_max
           nxt == [mc EXCEPT !.prescaler = IF last THEN @ + 1 ELSE @,
                             !.multiplier = IF last THEN 1 ELSE @ + 1]
       IN  mc' = IF ~vco_in_range(vco_clk)
                 THEN [nxt EXCEPT !.vco_seen = 0]
                 ELSE LET g == fl2000_pll_get_divisor(mc.clock_mil_adjusted, vco_clk,
                                                      mc.min_ppm_err)
                      IN  IF g.best_divisor = 0
                          THEN [nxt EXCEPT !.vco_seen = vco_clk,
                                           !.min_ppm_err = g.min_ppm_err]
                          ELSE [nxt EXCEPT !.vco_seen = vco_clk,
                                           !.min_ppm_err = g.min_ppm_err,
                                           !.pll.prescaler = mc.prescaler,
                                           !.pll.multiplier = mc.multiplier,
                                           !.pll.divisor = g.best_divisor,
                                           !.pll.function = pll_function(vco_clk),
                                           !.clock_calculated =
                                               vco_clk \div g.best_divisor]
    /\ UNCHANGED <<su, px, lk, stream>>

\* return min_ppm_err;
PllReturn ==
    /\ mc.pc = "pll"
    /\ mc.prescaler > prescaler_max
    /\ mc' = [mc EXCEPT !.pc = "pll_ret", !.vco_seen = 0, !.errs = Append(@, mc.min_ppm_err)]
    /\ UNCHANGED <<su, px, lk, stream>>

\* the rest of the pass of fl2000_mode_calc: accept and return 0, or m++, s = -s.
\* Both callers hand in an adjusted_mode.
ModeCalcCheck ==
    /\ mc.pc = "pll_ret"
    /\ mc.caller # "none"
    /\ mc' = IF acceptable(mc.min_ppm_err)
             THEN [mc EXCEPT !.pc = "mc_ret",
                             !.adjusted_mode =
                                 [written |-> TRUE,
                                  htotal |-> mc.mode.htotal + mc.d,
                                  clock |-> mc.clock_calculated \div 1000],
                             !.pll.min_ppm_err = mc.min_ppm_err,
                             !.ret = 0]
             ELSE [mc EXCEPT !.pc = "search", !.m = @ + 1, !.s = -@]
    /\ UNCHANGED <<su, px, lk, stream>>

\* the callers after fl2000_mode_calc: if (fl2000_mode_calc(...)) return [MODE_BAD];
ModeCalcReturn ==
    /\ mc.pc = "mc_ret"
    /\ mc' = IF mc.ret # 0
             THEN [mc EXCEPT !.pc = "done",
                             !.status = IF mc.caller = "mode_valid" THEN "MODE_BAD" ELSE ""]
             ELSE [mc EXCEPT !.pc = "bytes_pix"]
    /\ UNCHANGED <<su, px, lk, stream>>

\* fl2000_get_bytes_pix(usb_dev->speed, adjusted_mode->clock * 1000) and the
\* test of its result
BytesPix ==
    /\ mc.pc = "bytes_pix"
    /\ \E speed \in UsbSpeeds :
          LET bpp == fl2000_get_bytes_pix(speed, mc.adjusted_mode.clock * 1000)
          IN  mc' = [mc EXCEPT !.speed = speed,
                               !.bytes_pix = bpp,
                               !.pc = IF bpp # 0 /\ mc.caller = "output_mode_set"
                                      THEN "configure" ELSE "done",
                               !.status = IF mc.caller # "mode_valid" THEN ""
                                          ELSE IF bpp = 0 THEN "MODE_BAD" ELSE "MODE_OK"]
    /\ UNCHANGED <<su, px, lk, stream>>

\* the rest of fl2000_output_mode_set: the register writes, then
\* fl2000_stream_mode_set(fl2000_dev, mode->hdisplay * mode->vdisplay, bytes_pix)
OutputConfigure ==
    /\ mc.pc = "configure"
    /\ fl2000_stream_mode_set(mc.mode.hdisplay * mc.mode.vdisplay, mc.bytes_pix)
    /\ mc' = [mc EXCEPT !.pc = "done"]
    /\ UNCHANGED <<su, px, lk>>

ModeNext ==
    \/ DisplayModeValid
    \/ OutputModeSet
    \/ ModeCalcCeiling
    \/ ModeCalcSearch
    \/ PllStep
    \/ PllReturn
    \/ ModeCalcCheck
    \/ ModeCalcReturn
    \/ BytesPix
    \/ OutputConfigure

ModeSpec == Init /\ [][ModeNext]_vars

\* fl2000_pll_calc on its own
PllInit ==
    /\ StreamInit
    /\ su = SuIdle
    /\ px = PxIdle
    /\ lk = LkIdle
    /\ \E clock_mil \in PllClocks :
          mc = [McIdle EXCEPT !.pc = "pll",
                              !.clock_mil_adjusted = clock_mil,
                              !.prescaler = 1,
                              !.multiplier = 1]

PllNext == PllStep \/ PllReturn

PllSpec == PllInit /\ [][PllNext]_vars

\* the ceiling check of fl2000_mode_calc on its own
CeilingEnter ==
    \E clock \in CeilingClocks :
        mode_calc_enter("mode_valid",
                        [clock |-> clock, htotal |-> 2200, hdisplay |-> 1920,
                         vdisplay |-> 1080])

CeilingNext == CeilingEnter \/ ModeCalcCeiling

CeilingSpec == Init /\ [][CeilingNext]_vars

(***************************************************************************)
(* One source pixel through the converter fl2000_stream_compress selects.  *)
(***************************************************************************)
\* the bytes X, R, G, B of the source pixels tried
PixBytes == {0, 1, 3, 7, 8, 31, 32, 128, 192, 224, 248, 255}

\* u32 pix = sbuf[x], with fl2000_dev->bytes_pix as fl2000_get_bytes_pix left it
PixLoad ==
    /\ px.pc = "idle"
    /\ \E bpp \in 1 .. 3, X \in {0, 90, 255}, R \in PixBytes, G \in PixBytes, B \in PixBytes :
          px' = [px EXCEPT !.pc = "loaded",
                           !.bytes_pix = bpp,
                           !.pix = <<X * 256 + R, G * 256 + B>>]
    /\ UNCHANGED <<su, mc, lk, stream>>

\* the converter's stores for that pixel
PixConvert ==
    /\ px.pc = "loaded"
    /\ px' = [px EXCEPT !.pc = "stored", !.out = convert_line(px.bytes_pix, px.pix)]
    /\ UNCHANGED <<su, mc, lk, stream>>

PixSpec == Init /\ [][PixLoad \/ PixConvert]_vars

(***************************************************************************)
(* The conversion loop of fl2000_stream_compress over one frame, one       *)
(* source pixel per step; only the destination addresses are followed.     *)
(***************************************************************************)
MaxWidth == 12
MaxHeight == 2

\* fl2000_stream_compress(dev, src, height, width, pitch) entered with a
\* buffer of buf_size = round_up(width * height * bytes_pix, 8) bytes, as
\* fl2000_stream_mode_set(hdisplay * vdisplay, bytes_pix) left it
FrameStart ==
    /\ px.pc = "idle"
    /\ \E bpp \in 1 .. 3, width \in 1 .. MaxWidth, height \in 1 .. MaxHeight :
          px' = [px EXCEPT !.pc = "line",
                           !.bytes_pix = bpp,
                           !.width = width,
                           !.height = height,
                           !.size = round_up8(width * height * bpp)]
    /\ UNCHANGED <<su, mc, lk, stream>>

\* the stores for source pixel x of line y: dst = vaddr + y * dst_line_len
FrameStore ==
    /\ px.pc = "line"
    /\ LET dst == px.y * (px.width * px.bytes_pix)
           last_x == px.x + 1 = px.width
           last_y == px.y + 1 = px.height
       IN  px' = [px EXCEPT !.idx = {dst + o : o \in line_store(px.bytes_pix, px.x)},
                            !.x = IF last_x THEN 0 ELSE px.x + 1,
                            !.y = IF last_x THEN px.y + 1 ELSE px.y,
                            !.pc = IF last_x /\ last_y THEN "done" ELSE "line"]
    /\ UNCHANGED <<su, mc, lk, stream>>

FrameSpec == Init /\ [][FrameStart \/ FrameStore]_vars

(***************************************************************************)
(* list_lock along one call of a streaming function                        *)
(***************************************************************************)
\* a streaming function is entered
LockCall ==
    /\ lk.pc = "idle"
    /\ \E fn \in {"compress", "work", "data_completion", "mode_set", "enable",
                   "disable", "release"} :
       \E a \in 0 .. FL2000_SB_NUM, b \in 0 .. MaxHeight :
          /\ fn = "compress" => (a <= 2 /\ b >= 1)
          /\ fn = "work" => (a <= 1 /\ b = 0)
          /\ fn = "data_completion" => (a <= 2 /\ b = 0)
          /\ fn = "mode_set" => (a = 0 /\ b = 0)
          /\ fn = "enable" => b = 0
          /\ fn \in {"disable", "release"} => a + b <= FL2000_SB_NUM
          /\ lk' = [LkIdle EXCEPT !.pc = "run", !.fn = fn, !.ops = lock_ops(fn, a, b)]
    /\ UNCHANGED <<su, mc, px, stream>>

\* its next operation; spin_lock_irq takes list_lock, spin_unlock gives it back
LockStep ==
    /\ lk.pc = "run"
    /\ LET op == lk.ops[lk.i + 1]
       IN  lk' = [lk EXCEPT !.i = lk.i + 1,
                            !.op = op,
                            !.held = CASE op = "spin_lock_irq" -> TRUE
                                       [] op = "spin_unlock" -> FALSE
                                       [] OTHER -> lk.held,
                            !.pc = IF lk.i + 1 = Len(lk.ops) THEN "returned" ELSE "run"]
    /\ UNCHANGED <<su, mc, px, stream>>

LockSpec == Init /\ [][LockCall \/ LockStep]_vars

(***************************************************************************)
(* Properties                                                              *)
(***************************************************************************)
NBuffers == Len(render_list) + Len(transmit_list) + Len(wait_list)

Occurrences(b) == Count(render_list, b) + Count(transmit_list, b) + Count(wait_list, b)

\* position of buffer b in the order of encodings (0: holds no frame)
EncPosIn(order, b) ==
    IF b \in SeqToSet(order)
    THEN CHOOSE i \in 1 .. Len(order) : order[i] = b
    ELSE 0

EncPos(b) == EncPosIn(enc_order, b)

DataUrbs == Cardinality({ i \in 1 .. Len(anchor) : anchor[i].kind = "data" })

\* C1: every allocated stream buffer is on exactly one of render_list,
\* transmit_list and wait_list, and there once, in every reachable state.
C1_ExactlyOneQueue == \A b \in DOMAIN bufs : Occurrences(b) = 1

\* buffers spread over all three lists while the stream runs
W_C1 ==
    /\ enabled
    /\ render_list # <<>>
    /\ transmit_list # <<>>
    /\ wait_list # <<>>

\* C2: between fl2000_stream_enable and the following fl2000_stream_disable
\* the three lists hold exactly FL2000_SB_NUM buffers in total.
C2_PoolCount == (active /\ fault = "none") => NBuffers = FL2000_SB_NUM

\* C3: after fl2000_stream_mode_set(pixels, bytes_pix) and fl2000_stream_enable
\* there are exactly 4 buffers, all on render_list, each of the size
\* pixels * bytes_pix rounded up to a multiple of 8; when
\* fl2000_stream_disable returns the three lists are empty and no buffer is left.
C3_EnableDisablePool ==
    [][ /\ (~active /\ active' /\ ms_pixels > 0) =>
            /\ Len(render_list') = FL2000_SB_NUM
            /\ transmit_list' = <<>>
            /\ wait_list' = <<>>
            /\ DOMAIN bufs' = SeqToSet(render_list')
            /\ Cardinality(DOMAIN bufs') = FL2000_SB_NUM
            /\ \A b \in DOMAIN bufs' :
                   /\ bufs'[b].size % 8 = 0
                   /\ bufs'[b].size >= ms_pixels * bytes_pix
                   /\ bufs'[b].size < ms_pixels * bytes_pix + 8
        /\ (dpc = "drain" /\ dpc' = "idle") =>
            /\ render_list' = <<>>
            /\ transmit_list' = <<>>
            /\ wait_list' = <<>>
            /\ DOMAIN bufs' = {}
      ]_vars


\* fl2000_stream_disable has returned: nothing of the stream is left running
DisableReturned ==
    /\ dpc = "idle"
    /\ wpc = "idle"
    /\ ~enabled
    /\ anchor = <<>>

C5_DisableIdempotent ==
    /\ ~uaf
    /\ (ndisable >= 1 /\ dpc = "idle") =>
           /\ ~enabled
           /\ render_list = <<>>
           /\ transmit_list = <<>>
           /\ wait_list = <<>>
           /\ DOMAIN bufs = {}
           /\ anchor = <<>>
    /\ \A i \in 1 .. Len(snap) :
           /\ snap[i] = snap[1]
           /\ snap[i] = StateSummary(FALSE, [r |-> <<>>, t |-> <<>>, w |-> <<>>], <<>>)

\* a second disable in a row has returned
W_C5 ==
    /\ ndisable = 2
    /\ Len(snap) = 2
    /\ dpc = "idle"

\* C6: while the stream is enabled and every submitted transfer has completed
\* (with a success or an error status) the worker is not left blocked without
\* a credit, a state from which it never submits again.
C6_WorkerNotStarved ==
    ~ ( /\ enabled
        /\ active
        /\ dpc = "idle"
        /\ fault = "none"
        /\ wpc = "wait"
        /\ done = 0
        /\ anchor = <<>> )

\* C7: frames leave in the order they were encoded: transmit_list is ordered
\* by encoding, and the worker, when transmit_list is not empty, takes the
\* buffer encoded before all those that stay on it.
C7_FifoOrder ==
    [][ /\ \A i \in 1 .. Len(transmit_list') :
               EncPosIn(enc_order', transmit_list'[i]) > 0
        /\ \A i, j \in 1 .. Len(transmit_list') :
               i < j => EncPosIn(enc_order', transmit_list'[i])
                            < EncPosIn(enc_order', transmit_list'[j])
        /\ (wpc = "select" /\ wpc' = "submit" /\ transmit_list # <<>>) =>
               /\ cur_sb' = transmit_list[1]
               /\ transmit_list' = Tail(transmit_list)
               /\ \A i \in 1 .. Len(transmit_list') :
                      EncPosIn(enc_order', cur_sb')
                          < EncPosIn(enc_order', transmit_list'[i])
      ]_vars

\* the worker holds an encoded frame while two later frames wait their turn
W_C7 ==
    /\ wpc = "submit"
    /\ Len(transmit_list) >= 2
    /\ EncPos(cur_sb) > 0
    /\ EncPos(cur_sb) < EncPos(transmit_list[1])

CreditsHeld == IF wpc \in {"select", "submit"} THEN 1 ELSE 0

\* C9: while the stream is enabled and its worker runs, the credits available
\* plus the credits the worker holds plus the data transfers outstanding are
\* FL2000_SB_MIN, whatever the statuses the transfers completed with.
C9_PipelineDepth ==
    (enabled /\ fault = "none" /\ wpc # "idle") =>
        done + CreditsHeld + DataUrbs = FL2000_SB_MIN

\* C10: a data transfer whose size is not a multiple of the endpoint's maximum
\* packet size is followed by exactly one zero-length transfer on the same
\* endpoint before the next data transfer; a transfer whose size is a multiple
\* has none and carries the zero-packet flag instead.
C10_ShortPacketTermination ==
    (fault = "none" /\ last_data.size >= 0) =>
        /\ last_data.zero_packet = (last_data.size % max_packet = 0)
        /\ (wpc = "zero") =>
               /\ last_data.size % max_packet # 0
               /\ last_data.issued = 0
        /\ (wpc # "zero") =>
               last_data.issued = IF last_data.size % max_packet # 0 THEN 1 ELSE 0
        /\ (last_data.issued = 1) => last_data.zep = last_data.ep
        /\ (wpc \in {"while", "wait", "select", "submit"}) =>
               last_data.accepted = last_data.issued

\* the companion of a short data transfer is out and the worker is about to
\* submit the next data transfer
W_C10 ==
    /\ wpc = "submit"
    /\ last_data.size % max_packet # 0
    /\ last_data.accepted = 1


\* C11: allocation at stream enable is all-or-nothing: when one of the
\* FL2000_SB_NUM allocations fails every buffer allocated so far is freed and
\* fl2000_stream_enable fails as a whole: enabled is not set, no credit is
\* armed and the worker is not started.
C11_EnableAllOrNothing ==
    [][ (\E fail_at \in 1 .. FL2000_SB_NUM : fl2000_stream_enable(fail_at)) =>
            /\ render_list' = <<>>
            /\ transmit_list' = <<>>
            /\ wait_list' = <<>>
            /\ DOMAIN bufs' = {}
            /\ enabled' = enabled
            /\ done' = done
            /\ wpc' = wpc
      ]_vars

\* C12: when fl2000_stream_work leaves its loop because of a fault (URB
\* allocation or submission failure, for the data or the companion transfer)
\* enabled is false and nothing crashed: no step of the worker that submits
\* ends in a kernel fault, and the stream is never enabled with no worker.
C12_WorkerFaultDisables ==
    [][ /\ (SubmitData \/ SubmitZero) => fault' = "none"
        /\ (wpc \in {"submit", "zero"} /\ wpc' = "idle") => ~enabled'
      ]_vars

\* C14: the buffer fl2000_stream_compress encodes into has in_flight = 0 and
\* no outstanding transfer refers to it, under every interleaving with the
\* worker (fallback re-selection included) and the completions.
C14_ProducerBufferIdle ==
    [][ (Compress /\ render_list # <<>> /\ fault' = "none") =>
            LET b == Last(transmit_list')
            IN  /\ bufs'[b].in_flight = 0
                /\ \A k \in 1 .. Len(anchor) :
                       ~(anchor[k].kind = "data" /\ anchor[k].sb = b)
      ]_vars

\* a frame was encoded while a buffer re-selected by the worker is in flight twice
W_C14 ==
    /\ transmit_list # <<>>
    /\ ~dropped
    /\ \E b \in SeqToSet(wait_list) : bufs[b].in_flight >= 2
    /\ DataUrbs >= 2


\* C13: fl2000_submit_urb makes at most 11 submission attempts; it submits
\* again only after -ENXIO or -ENOMEM, and any other result of an attempt ends
\* the call and is what the call returns.
C13_SubmitBounded ==
    [][ UsbSubmit =>
            /\ su'.calls <= 11
            /\ su'.last \notin {ENXIO, ENOMEM} =>
                   (su'.pc = "ret" /\ su'.ret = su'.last)
      ]_vars


\* C15: fl2000_mode_calc rejects every mode whose clock in Hz (mode->clock in
\* kHz times 1000) is above 500,000,000, whatever the value of the signed
\* 32-bit clock field, without writing an adjusted mode; a clock of exactly
\* 500 MHz passes the check.
C15_CeilingRejects ==
    mc.pc \notin {"idle", "ceiling"} =>
        /\ mc.mode.clock > 500000 =>
               (mc.pc = "mc_ret" /\ mc.ret = -1 /\ ~mc.adjusted_mode.written)
        /\ mc.mode.clock = 500000 => mc.pc = "search"

\* the offsets of the htotal search in the order 0, -1, +1, ..., -10, +10
SearchOffsets ==
    [i \in 1 .. 21 |-> IF i = 1 THEN 0 ELSE IF i % 2 = 0 THEN -(i \div 2) ELSE i \div 2]

C17_FirstAcceptable ==
    mc.pc \in {"mc_ret", "bytes_pix", "configure", "done"} =>
        LET n == Len(mc.errs)
        IN  /\ \A i \in 1 .. n - 1 : mc.errs[i] >= 500
            /\ mc.ret \in {0, -1}
            /\ mc.ret = 0 =>
                   /\ n = Len(mc.offsets)
                   /\ n >= 1
                   /\ mc.errs[n] < 500
                   /\ mc.adjusted_mode.written
                   /\ mc.adjusted_mode.htotal = mc.mode.htotal + mc.offsets[n]
                   /\ mc.adjusted_mode.clock
                          = (vco_clk_of(mc.pll.prescaler, mc.pll.multiplier)
                                 \div mc.pll.divisor) \div 1000
                   /\ mc.pll.min_ppm_err = mc.errs[n]
            /\ mc.ret = -1 =>
                   /\ ~mc.adjusted_mode.written
                   /\ n \in {0, 21}
                   /\ n = 21 => mc.errs[21] >= 500

\* a mode accepted at an offset other than 0: 148.5 MHz with htotal 2200 at d = -2
W_C17 ==
    /\ mc.pc = "mc_ret"
    /\ mc.ret = 0
    /\ mc.offsets = <<0, -1, 1, -2>>
    /\ mc.errs[3] >= 500
    /\ mc.adjusted_mode.htotal = 2198

\* C18: every configuration fl2000_pll_calc holds has prescaler in {1, 2},
\* multiplier in 1 .. 128, a divisor of the divisor table and
\* vco = 10 MHz / prescaler * multiplier within [62.5 MHz, 1 GHz]; no candidate
\* with vco outside that range is evaluated.
C18_VcoInRange ==
    /\ mc.vco_seen # 0 => (mc.vco_seen >= 62500000 /\ mc.vco_seen <= 1000000000)
    /\ mc.pll # PllUnset =>
           /\ mc.pll.prescaler \in {1, 2}
           /\ mc.pll.multiplier \in 1 .. 128
           /\ mc.pll.divisor \in {2, 4, 6} \cup (7 .. 128)
           /\ (10000000 \div mc.pll.prescaler) * mc.pll.multiplier >= 62500000
           /\ (10000000 \div mc.pll.prescaler) * mc.pll.multiplier <= 1000000000

\* 1 MHz is returned as 70 MHz / 70: the exact match 10 MHz / 10 has its vco
\* out of range and was passed over
W_C18 ==
    /\ mc.pc = "pll_ret"
    /\ mc.caller = "none"
    /\ mc.clock_mil_adjusted = <<1000000, 0>>
    /\ mc.pll.prescaler = 1
    /\ mc.pll.multiplier = 7
    /\ mc.pll.divisor = 70

\* position of a (prescaler, multiplier, divisor index) triple in the scan
ScanPos(prescaler, multiplier, divisor_idx) ==
    ((prescaler - 1) * 128 + (multiplier - 1)) * 125 + divisor_idx

\* C19: what fl2000_pll_calc returns is the minimum of fl2000_pll_ppm_err over
\* all triples with vco in range; the returned prescaler, multiplier, divisor
\* and achieved clock are those of the first triple of the scan that attains
\* it, the returned error is the error of that triple, and 25 MHz gives 0.
C19_MinimalError ==
    (mc.pc = "pll_ret" /\ mc.caller = "none") =>
        LET cm == mc.clock_mil_adjusted
            e == mc.min_ppm_err
            vco == (10000000 \div mc.pll.prescaler) * mc.pll.multiplier
            idx == CHOOSE i \in 1 .. 125 : divisor_arr[i] = mc.pll.divisor
            pos == ScanPos(mc.pll.prescaler, mc.pll.multiplier, idx)
        IN  /\ fl2000_pll_ppm_err(cm, vco, mc.pll.divisor) = e
            /\ mc.clock_calculated = vco \div mc.pll.divisor
            /\ cm = <<25000000, 0>> => e = 0
            /\ \A p \in 1 .. 2, m \in 1 .. 128 :
                   LET v == (10000000 \div p) * m
                   IN  (v >= 62500000 /\ v <= 1000000000) =>
                           \A i \in 1 .. 125 :
                               LET x == fl2000_pll_ppm_err(cm, v, divisor_arr[i])
                               IN  /\ x >= e
                                   /\ x = e => ScanPos(p, m, i) >= pos

\* 25 MHz is returned as 100 MHz / 4 with error 0, the first of several exact matches
W_C19 ==
    /\ mc.pc = "pll_ret"
    /\ mc.caller = "none"
    /\ mc.clock_mil_adjusted = <<25000000, 0>>
    /\ mc.min_ppm_err = 0
    /\ mc.pll.prescaler = 1
    /\ mc.pll.multiplier = 10
    /\ mc.pll.divisor = 4
    /\ fl2000_pll_ppm_err(<<25000000, 0>>, 200000000, 8) = 0

C21_RejectedModeNoEffect ==
    (mc.pc = "done" /\ (mc.ret # 0 \/ mc.bytes_pix = 0)) =>
        /\ buf_size = 0
        /\ bytes_pix = 0
        /\ ms_pixels = 0
        /\ DOMAIN bufs = {}
        /\ NBuffers = 0
        /\ mc.caller = "output_mode_set" => mc.adjusted_mode = McIdle.adjusted_mode

\* C22: the 2-bytes-per-pixel converter stores, for every XRGB pixel, the
\* 16-bit value with the top 5 bits of R in bits 15..11, the top 6 bits of G
\* in bits 10..5 and the top 5 bits of B in bits 4..0; the X byte and the low
\* bits of R, G and B have no effect; 0x00FF0080 gives 0xF810.
C22_Rgb565 ==
    (px.pc = "stored" /\ px.bytes_pix = 2) =>
        LET R == px.pix[1] % 256
            G == px.pix[2] \div 256
            B == px.pix[2] % 256
        IN  /\ px.out = << (R \div 8) * 2048 + (G \div 4) * 32 + B \div 8 >>
            /\ px.pix = <<255, 128>> => px.out = <<63504>>

\* 0x5AFF0780, the pixel of the example with another X byte and low bits of G
\* set, has given 0xF810 too
W_C22 ==
    /\ px.pc = "stored"
    /\ px.bytes_pix = 2
    /\ px.pix = <<90 * 256 + 255, 3 * 256 + 128>>
    /\ px.out = <<63504>>

\* C23: the 1-byte-per-pixel converter of fl2000_stream_compress stores the
\* top 3 bits of R in bits 7..5, the top 3 bits of G in bits 4..2 and the top
\* 2 bits of B in bits 1..0.
C23_Rgb332 ==
    (px.pc = "stored" /\ px.bytes_pix = 1) =>
        LET R == px.pix[1] % 256
            G == px.pix[2] \div 256
            B == px.pix[2] % 256
        IN  px.out = << (R \div 32) * 32 + (G \div 32) * 4 + B \div 64 >>

\* C24: the worker takes the head of transmit_list if there is one, otherwise
\* the tail of wait_list if there is one, otherwise the tail of render_list;
\* in the same step (one critical section), and before any transfer of it is
\* submitted, the in_flight of that buffer goes up by 1 and the buffer goes to
\* the tail of wait_list.
C24_WorkerSelection ==
    [][ (wpc = "select" /\ wpc' = "submit") =>
            LET cur == IF transmit_list # <<>> THEN transmit_list[1]
                       ELSE IF wait_list # <<>> THEN Last(wait_list)
                       ELSE Last(render_list)
            IN  /\ cur_sb' = cur
                /\ wpc' = "submit"
                /\ bufs' = [bufs EXCEPT ![cur].in_flight = bufs[cur].in_flight + 1]
                /\ wait_list' = Append(Remove(wait_list, cur), cur)
                /\ render_list' = Remove(render_list, cur)
                /\ transmit_list' = Remove(transmit_list, cur)
                /\ anchor' = anchor
      ]_vars

\* with transmit_list empty the worker took the tail of wait_list, ahead of a
\* free buffer on render_list, while the transfer of that tail is outstanding
W_C24 ==
    /\ wpc = "submit"
    /\ transmit_list = <<>>
    /\ render_list # <<>>
    /\ Len(wait_list) >= 2
    /\ cur_sb = Last(wait_list)
    /\ bufs[cur_sb].in_flight = 2
    /\ fault = "none"

C26_ResendsNewest ==
    [][ (WorkSelect /\ transmit_list = <<>> /\ fault' = "none") =>
            \A b \in SeqToSet(wait_list) \cup SeqToSet(render_list) :
                EncPos(b) <= EncPos(cur_sb')
      ]_vars

\* C27: the completion of a data transfer lowers the in_flight of its buffer
\* by exactly 1; the buffer goes to the tail of render_list if and only if
\* in_flight is then 0, and keeps its place on wait_list otherwise.
C27_CompletionDecrements ==
    [][ (Completion /\ Head(anchor).kind = "data" /\ Head(anchor).sb \in DOMAIN bufs) =>
            LET b == Head(anchor).sb
            IN  /\ bufs' = [bufs EXCEPT ![b].in_flight = bufs[b].in_flight - 1]
                /\ IF bufs'[b].in_flight = 0
                   THEN /\ render_list' = Append(Remove(render_list, b), b)
                        /\ wait_list' = Remove(wait_list, b)
                   ELSE /\ render_list' = render_list
                        /\ wait_list' = wait_list
                /\ transmit_list' = Remove(transmit_list, b)
      ]_vars

\* C28: every completion of a data transfer calls drm_crtc_handle_vblank
\* exactly once, whatever the status of the transfer.
C28_VblankEveryCompletion ==
    [][ \A st \in UrbStatus :
            (Complete(st) /\ Head(anchor).kind = "data" /\ Head(anchor).sb \in DOMAIN bufs) =>
                urb_completion(bufs, Lists, done, Head(anchor), st).vblank = 1
      ]_vars

\* C29: in every reachable state the in_flight of every buffer is the number
\* of data transfers of that buffer submitted and not yet completed (counting
\* the one the worker has selected the buffer for and is about to submit),
\* also after a failed submission and after a completion with an error status.
C29_InFlightCountsTransfers ==
    \A b \in DOMAIN bufs :
        bufs[b].in_flight =
            Cardinality({ i \in 1 .. Len(anchor) :
                              anchor[i].kind = "data" /\ anchor[i].sb = b })
                + (IF wpc = "submit" /\ cur_sb = b THEN 1 ELSE 0)

\* C30 as claimed: in_flight of a buffer is above 1 only while a zero-length
\* companion transfer is pending, and the fallback selection of the worker
\* never selects a buffer that has a data transfer outstanding.
C30_AboveOneOnlyWithCompanion ==
    [][ /\ \A b \in DOMAIN bufs' :
               bufs'[b].in_flight > 1 =>
                   \/ \E i \in 1 .. Len(anchor') : anchor'[i].kind = "zero"
                   \/ wpc' = "zero"
        /\ (WorkSelect /\ transmit_list = <<>> /\ fault' = "none") =>
               \A i \in 1 .. Len(anchor) :
                   ~(anchor[i].kind = "data" /\ anchor[i].sb = cur_sb')
      ]_vars

\* C30, amended: in_flight of a buffer rises above 1 only by the fallback
\* selection of the worker, which with transmit_list empty selects the tail of
\* wait_list again; submitting the zero-length companion and its completion
\* change no in_flight.
C30_AboveOneOnlyByResend ==
    [][ /\ \A b \in DOMAIN bufs' :
               ( /\ bufs'[b].in_flight > 1
                 /\ (b \in DOMAIN bufs => bufs[b].in_flight < bufs'[b].in_flight) ) =>
                   /\ wpc = "select" /\ wpc' = "submit" /\ cur_sb' = b
                   /\ transmit_list = <<>>
                   /\ wait_list # <<>>
                   /\ b = Last(wait_list)
                   /\ bufs'[b].in_flight = bufs[b].in_flight + 1
        /\ (wpc = "zero" /\ wpc' # "zero") => bufs' = bufs
        /\ (anchor # <<>> /\ Head(anchor).kind = "zero" /\ anchor' = Tail(anchor)) =>
               bufs' = bufs
      ]_vars

\* the worker has selected again a buffer whose data transfer is outstanding;
\* its size is a multiple of max_packet, so no zero-length transfer is involved
W_C30 ==
    /\ wpc = "submit"
    /\ bufs[cur_sb].in_flight = 2
    /\ bufs[cur_sb].size % max_packet = 0
    /\ \E i \in 1 .. Len(anchor) : anchor[i].kind = "data" /\ anchor[i].sb = cur_sb
    /\ \A i \in 1 .. Len(anchor) : anchor[i].kind = "data"
    /\ ndisturb = 0

\* C33: fl2000_stream_mode_set only stores buf_size and bytes_pix: a step that
\* changes either of them allocates, frees and moves no buffer; and the buffer
\* fl2000_stream_compress encodes into has size buf_size: a buffer of another
\* size at the head of render_list is freed and a new buffer of size buf_size,
\* with in_flight 0, takes the frame.
C33_LazyResize ==
    [][ /\ (buf_size' # buf_size \/ bytes_pix' # bytes_pix) =>
               /\ bufs' = bufs
               /\ render_list' = render_list
               /\ transmit_list' = transmit_list
               /\ wait_list' = wait_list
               /\ buf_size' = ((ms_pixels' * bytes_pix' + 7) \div 8) * 8
        /\ (Compress /\ fault' = "none" /\ render_list # <<>>) =>
               LET old == render_list[1]
                   b == Last(transmit_list')
               IN  /\ bufs'[b].size = buf_size
                   /\ bufs[old].size = buf_size => (b = old /\ bufs' = bufs)
                   /\ bufs[old].size # buf_size =>
                          /\ bufs'[b] = [size |-> buf_size, in_flight |-> 0]
                          /\ \A o \in DOMAIN bufs \ {old} : bufs'[o] = bufs[o]
                          /\ DOMAIN bufs' = (DOMAIN bufs \ {old}) \cup {b}
      ]_vars

\* after a change of mode with the stream running, a frame sits in a new
\* buffer of the new size while buffers of the old size are still in the pool
W_C33 ==
    /\ enabled
    /\ transmit_list # <<>>
    /\ bufs[Last(transmit_list)].size = buf_size
    /\ \E b \in SeqToSet(render_list) : bufs[b].size # buf_size
    /\ \E b \in SeqToSet(wait_list) : bufs[b].size # buf_size
    /\ fault = "none"

\* C34: no stream buffer is freed while a transfer that references it is
\* outstanding: a step that frees a buffer (it leaves the pool, or it is the
\* wrong-size head of render_list that fl2000_stream_compress replaces) finds
\* no data URB of that buffer in the anchor; fl2000_stream_disable frees the
\* pool only with the worker gone and the anchor empty; the buffer that
\* compress replaces has in_flight 0; and no freed buffer is ever touched.
C34_NoFreeWhileInFlight ==
    [][ LET replaced(b) == /\ render_list # <<>>
                           /\ b = render_list[1]
                           /\ bufs[b].size # buf_size
                           /\ enc_order' # enc_order
                           /\ dpc' = dpc
            freed(b) == b \notin DOMAIN bufs' \/ replaced(b)
        IN  /\ \A b \in DOMAIN bufs :
                   freed(b) =>
                       /\ \A i \in 1 .. Len(anchor) :
                              ~(anchor[i].kind = "data" /\ anchor[i].sb = b)
                       /\ ~(wpc = "submit" /\ cur_sb = b)
                       /\ replaced(b) => bufs[b].in_flight = 0
            /\ (dpc = "drain" /\ dpc' = "idle") =>
                   /\ wpc = "idle"
                   /\ anchor = <<>>
                   /\ DOMAIN bufs' = {}
            /\ ~uaf'
      ]_vars

\* fl2000_stream_disable is about to free the pool: the worker has exited and
\* the transfers that never completed were killed, leaving their buffers on
\* wait_list with in_flight above 0
W_C34 ==
    /\ dpc = "drain"
    /\ wpc = "idle"
    /\ anchor = <<>>
    /\ \E b \in SeqToSet(wait_list) : bufs[b].in_flight > 0
    /\ render_list # <<>>
    /\ fault = "none"

C37_NoWrongSizeSubmit ==
    [][ (wpc = "submit" /\ Len(anchor') > Len(anchor)) => bufs[cur_sb].size = buf_size ]_vars

\* C38: BUG_ON(!list_empty(&render_list)) at the top of
\* fl2000_stream_get_buffers never fires: whenever fl2000_stream_enable can be
\* called (the pipe is not active and no disable is running), also after a
\* session that the worker ended by itself, no buffer of a previous session is
\* in the pool or on a list and no transfer is anchored.
C38_EnableFindsEmptyPool ==
    /\ fault # "bug_on"
    /\ (~active /\ dpc = "idle") =>
           /\ list_empty(render_list)
           /\ list_empty(transmit_list)
           /\ list_empty(wait_list)
           /\ DOMAIN bufs = {}
           /\ anchor = <<>>
           /\ wpc = "idle"

\* a session has ended and its disable has returned: the next enable may run
W_C38 ==
    /\ ~active
    /\ dpc = "idle"
    /\ ndisable = 1
    /\ done = UINT_MAX
    /\ buf_size > 0
    /\ fault = "none"

\* C39: immediately after every fl2000_stream_enable the number of credits is
\* exactly FL2000_SB_MIN: what the wake-all of an earlier disable or earlier
\* completions left in the completion does not carry over.
C39_EnableResetsCredits ==
    [][ (~active /\ active') => (done' = FL2000_SB_MIN /\ enabled') ]_vars

\* fl2000_stream_enable has just returned: three credits, the worker queued
\* and not yet running, nothing submitted
W_C39 ==
    /\ active
    /\ enabled
    /\ done = FL2000_SB_MIN
    /\ wpc = "pending"
    /\ anchor = <<>>
    /\ ndisable = 0
    /\ buf_size > 0
    /\ fault = "none"

\* C36: when a stream data transfer completes with -EPIPE the halt of the
\* endpoint is cleared and the transfer is submitted again, so it is still
\* outstanding after the completion; the stream is disabled instead only when
\* clearing the halt fails.
C36_EpipeRecovered ==
    [][ (Complete(EPIPE) /\ Head(anchor).kind = "data") =>
            \/ /\ urb_completion(bufs, Lists, done, Head(anchor), EPIPE).clear_halt = 1
               /\ Len(anchor') = Len(anchor)
               /\ enabled' = enabled
            \/ ~enabled'
      ]_vars

\* C40: for every frame whose width * height is the configured pixel count and
\* every bytes_pix in 1 .. 3, each destination byte that a line converter
\* stores through its XOR-swizzled index lies inside the stream buffer, at an
\* index in [0, buf_size), also when width * bytes_pix is not a multiple of 8.
C40_StoresInsideBuffer ==
    \A i \in px.idx : 0 <= i /\ i < px.size

\* C31: every insertion into, removal from and move between the three lists
\* is performed while list_lock is held, in every function: compress, the
\* worker, the data completion handler, enable (get_buffers), disable
\* (put_buffers) and release.
C31_ListOpsUnderLock ==
    lk.op \in {"list_add", "list_del", "list_move_tail"} => lk.held

\* C32: list_lock is held only for constant-time queue operations: never
\* across a suspend point, a buffer allocation or free, bus I/O, or the
\* per-frame pixel conversion loop.
C32_LockOnlyForQueueOps ==
    lk.held =>
        lk.op \notin {"wait_for_completion", "cancel_work_sync", "drain_workqueue",
                      "usb_wait_anchor_empty_timeout", "usb_kill_anchored_urbs",
                      "destroy_workqueue", "fl2000_alloc_sb", "fl2000_free_sb",
                      "usb_alloc_urb", "usb_submit_urb", "convert_line"}

====
